---- MODULE Spec2Model ----
(***************************************************************************)
(* Row-level-security policies and progress aggregation of the UPSC        *)
(* tracker database (supabase/migrations/20250713110526_proud_feather.sql  *)
(* over the tables of src/migrations/20250713013521_shy_art.sql), driven   *)
(* by the requests an authenticated caller can send through the REST API.  *)
(*                                                                         *)
(* Every request is one statement in its own transaction.  Spec runs the   *)
(* requests one at a time; TxSpec lets two requests of the same account    *)
(* that write user_section_progress overlap (READ COMMITTED).              *)
(***************************************************************************)
EXTENDS Integers, FiniteSets, Sequences, TLC

MaxSubjects == 1
MaxModules == 1
MaxSections == 2
MaxQuestions == 1
MaxNullRows == 2

Users == {"u1", "u2"}
\* a request that carries no session token: auth.uid() is NULL, the role is anon
Anon == "anon"
Callers == Users \cup {Anon}
\* raw_user_meta_data->>'role' at signUp: a role, absent, or another string
RoleClaims == {"admin", "student", "none", "other"}
Roles == {"admin", "student"}
\* Accounts whose progress rows the requests range over.
RowOwners == {"u2"}
Sessions == {1, 2}
\* the NULL of a nullable foreign key (sections.module_id, user_progress.subject_id)
NullId == 0

SubjectIds == 1..MaxSubjects
ModuleIds == 1..MaxModules
SectionIds == 1..MaxSections
QuestionIds == 1..MaxQuestions
SectionTypes == {"source", "test", "resource", "pyq"}

VARIABLES
  profiles,               \* id -> role
  subjects,               \* id -> [is_active]
  modules,                \* id -> [subject_id, is_active]
  sections,               \* id -> [module_id, type, order_index]
  user_section_progress,  \* <<user_id, section_id>> -> [is_completed]
  user_progress,          \* <<user_id, subject_id>> -> [total_sections, completed_sections]
  subject_id_column,      \* does subjects carry the subject_id column the trigger reads
  migration,              \* the migration whose policies and trigger body are installed
  null_subject_rows,      \* user_id -> number of user_progress rows whose subject_id is NULL
  ctx,                    \* the browser tab: AuthProvider state, its pending work, the client's session
  auth_users,             \* id -> role claim in raw_user_meta_data ("-" when not registered)
  questions,              \* id -> [section_id]
  tx,                     \* session -> open user_section_progress write
  last                    \* the latest request and its response

tables == <<profiles, subjects, modules, sections, user_section_progress, user_progress>>
vars == <<profiles, subjects, modules, sections, user_section_progress, user_progress,
          subject_id_column, migration, null_subject_rows, ctx, auth_users, questions, tx,
          last>>

\* role claim stored in auth.users.raw_user_meta_data at signUp
SignupRole == [u \in Users |-> IF u = "u1" THEN "admin" ELSE "student"]

NoRequest == [caller |-> "-", table |-> "-", op |-> "-", owner |-> "-",
              target |-> 0, code |-> "-", rows |-> {}]

Response(c, t, o, ow, tg, cd, rs) ==
  [caller |-> c, table |-> t, op |-> o, owner |-> ow, target |-> tg, code |-> cd, rows |-> rs]

IdleTx == [pc |-> "idle", user_id |-> "-", section_id |-> 0, is_completed |-> FALSE,
           subject_id |-> 0, total_sections |-> 0, completed_sections |-> 0]

NoOpenTx == \A t \in Sessions : tx[t].pc \in {"idle", "done"}

Remove(f, keys) == [k \in DOMAIN f \ keys |-> f[k]]

FreshId(ids, f) == CHOOSE i \in ids \ DOMAIN f : \A j \in ids \ DOMAIN f : i <= j

----------------------------------------------------------------------------
\* Policies

IsAdminAtSignup(caller) == SignupRole[caller] = "admin"

\* TO authenticated: the request carries the token of a registered identity
Authenticated(caller) == caller \in Users /\ auth_users[caller] # "-"

\* a request is sent without a token or with the token of a registered identity
CanCall == {Anon} \cup {u \in Users : Authenticated(u)}

\* EXISTS (SELECT 1 FROM profiles WHERE id = auth.uid() AND role = 'admin')
IsAdmin(caller) == Authenticated(caller) /\ profiles[caller] = "admin"

SubjectsSelectPolicyTrue(caller, row) == Authenticated(caller)

\* "Everyone can read active subjects" OR "Admins can manage all subjects" (FOR ALL)
SubjectsSelectPolicy(caller, row) ==
  Authenticated(caller) /\ (row.is_active = TRUE \/ IsAdmin(caller))

ModulesSelectPolicyActiveOnly(caller, row) == Authenticated(caller) /\ row.is_active = TRUE

\* "Everyone can read active modules" OR "Admins can manage all modules" (FOR ALL)
ModulesSelectPolicy(caller, row) ==
  Authenticated(caller) /\ (row.is_active = TRUE \/ IsAdmin(caller))

SectionsSelectPolicyActiveModule(caller, row) ==
  Authenticated(caller) /\
    (IsAdmin(caller) \/ (row.module_id \in DOMAIN modules /\ modules[row.module_id].is_active))

\* "Everyone can read sections": TO authenticated USING (true)
SectionsSelectPolicy(caller, row) == Authenticated(caller)

\* "Everyone can read questions": TO authenticated USING (true)
QuestionsSelectPolicy(caller, row) == Authenticated(caller)

ContentWritePolicyAuthenticated(caller) == Authenticated(caller)

\* "Admins can manage all subjects/modules/sections/questions": USING and WITH CHECK
ContentWritePolicy(caller) == IsAdmin(caller)

\* "Users can manage own ..." (FOR ALL) OR "Admins can read all ..." (FOR SELECT)
ProgressSelectPolicy(caller, owner) ==
  Authenticated(caller) /\ (owner = caller \/ IsAdmin(caller))

ProgressWritePolicyOrAdmin(caller, owner) == owner = caller \/ IsAdmin(caller)

\* "Users can manage own ...": USING (user_id = auth.uid()) WITH CHECK (user_id = auth.uid())
ProgressWritePolicy(caller, owner) == Authenticated(caller) /\ owner = caller

\* proud_feather "Users can insert own profile during signup": WITH CHECK (auth.uid() = id)
\* part_000 "Anyone can insert profiles during signup": WITH CHECK (true)
ProfilesInsertPolicy(caller, id) ==
  Authenticated(caller) /\ (migration = "part_000" \/ caller = id)

\* "Users can read own profile" OR "Admins can read all profiles"
ProfilesSelectPolicy(caller, id) ==
  Authenticated(caller) /\ (caller = id \/ IsAdmin(caller))

\* "Users can update own profile": USING (auth.uid() = id) WITH CHECK (auth.uid() = id)
ProfilesUpdatePolicyOrAdmin(caller, id) ==
  Authenticated(caller) /\ (caller = id \/ IsAdmin(caller))

ProfilesUpdatePolicy(caller, id) == Authenticated(caller) /\ caller = id

----------------------------------------------------------------------------
\* Hierarchy joins and cascades

ModulesOf(subj, mods) == {m \in DOMAIN mods : mods[m].subject_id = subj}
SectionsOfModules(ms, secs) == {s \in DOMAIN secs : secs[s].module_id \in ms}
SectionsOf(subj, mods, secs) == SectionsOfModules(ModulesOf(subj, mods), secs)

\* sections sec JOIN modules m ON sec.module_id = m.id JOIN subjects s ON m.subject_id = s.id
\*   WHERE sec.id = NEW.section_id
SubjectOfSection(sec) ==
  {s \in DOMAIN subjects :
     sec \in DOMAIN sections /\ sections[sec].module_id \in DOMAIN modules
       /\ modules[sections[sec].module_id].subject_id = s}

\* ON DELETE CASCADE from sections(id) to user_section_progress(section_id)
CascadeSectionProgress(usp, secs) == Remove(usp, {k \in DOMAIN usp : k[2] \in secs})

\* ON DELETE CASCADE from sections(id) to questions(section_id)
CascadeQuestions(qs, secs) == Remove(qs, {q \in DOMAIN qs : qs[q].section_id \in secs})

\* ON DELETE CASCADE from subjects(id) to user_progress(subject_id)
CascadeUserProgress(up, subjs) == Remove(up, {k \in DOMAIN up : k[2] \in subjs})

----------------------------------------------------------------------------
\* Aggregation trigger (AFTER INSERT OR UPDATE ON user_section_progress)

\* COUNT(sec.id) over the sections joined to the subject
TotalSections(subj, mods, secs) == Cardinality(SectionsOf(subj, mods, secs))

CompletedSectionsAnyRow(user, subj, mods, secs, usp) ==
  Cardinality({s \in SectionsOf(subj, mods, secs) : <<user, s>> \in DOMAIN usp})

\* COUNT(CASE WHEN usp.is_completed = true THEN 1 END) over the LEFT JOIN with the
\* caller's user_section_progress rows
CompletedSections(user, subj, mods, secs, usp) ==
  Cardinality({s \in SectionsOf(subj, mods, secs) :
                 <<user, s>> \in DOMAIN usp /\ usp[<<user, s>>].is_completed = TRUE})

\* INSERT INTO user_progress ... ON CONFLICT (user_id, subject_id) DO UPDATE SET ...
UpsertUserProgress(up, user, subj, total, completed) ==
  [k \in DOMAIN up \cup {<<user, subj>>} |->
     IF k = <<user, subj>>
       THEN [total_sections |-> total, completed_sections |-> completed]
       ELSE up[k]]

\* update_user_progress(): the rows of the INSERT ... SELECT ... GROUP BY, upserted
update_user_progress(user, sec, usp, up) ==
  LET found == SubjectOfSection(sec) IN
    IF found = {} THEN up
    ELSE LET subj == CHOOSE s \in found : TRUE IN
      UpsertUserProgress(up, user, subj,
                         TotalSections(subj, modules, sections),
                         CompletedSections(user, subj, modules, sections, usp))

\* part_000 update_user_progress() for a section that joins to no subject:
\* subject_uuid is NULL, both counts are 0 and the INSERT ... VALUES adds the row
\* (user, NULL, 0, 0); ON CONFLICT (user_id, subject_id) never matches a NULL.
\* The INSERT ... SELECT ... GROUP BY of proud_feather yields no row.
InsertNullSubjectRow(user, sec, rows) ==
  IF migration = "part_000" /\ SubjectOfSection(sec) = {}
    THEN [rows EXCEPT ![user] = @ + 1]
    ELSE rows

----------------------------------------------------------------------------
\* Requests on subjects

SelectSubjects(caller) ==
  /\ NoOpenTx
  /\ caller \in CanCall
  /\ last' = Response(caller, "subjects", "select", "-", 0, "ok",
                      {id \in DOMAIN subjects : SubjectsSelectPolicy(caller, subjects[id])})
  /\ UNCHANGED <<tables, subject_id_column, migration, ctx, null_subject_rows, auth_users, questions, tx>>

InsertSubject(caller) ==
  /\ NoOpenTx
  /\ caller \in CanCall
  /\ DOMAIN subjects # SubjectIds
  /\ IF ContentWritePolicy(caller)
       THEN /\ subjects' = subjects @@ (FreshId(SubjectIds, subjects) :> [is_active |-> TRUE])
            /\ last' = Response(caller, "subjects", "insert", "-", 0, "ok", {})
       ELSE /\ UNCHANGED subjects
            /\ last' = Response(caller, "subjects", "insert", "-", 0, "rls", {})
  /\ UNCHANGED <<profiles, modules, sections, user_section_progress, user_progress,
                 subject_id_column, migration, ctx, null_subject_rows, auth_users, questions, tx>>

\* toggleActive: update({ is_active: !subject.is_active }).eq('id', subject.id)
UpdateSubject(caller, id) ==
  /\ NoOpenTx
  /\ caller \in CanCall
  /\ id \in DOMAIN subjects
  /\ IF ContentWritePolicy(caller)
       THEN /\ subjects' = [subjects EXCEPT ![id].is_active = ~@]
            /\ last' = Response(caller, "subjects", "update", "-", id, "ok", {})
       ELSE /\ UNCHANGED subjects
            /\ last' = Response(caller, "subjects", "update", "-", id, "empty", {})
  /\ UNCHANGED <<profiles, modules, sections, user_section_progress, user_progress,
                 subject_id_column, migration, ctx, null_subject_rows, auth_users, questions, tx>>

DeleteSubject(caller, id) ==
  /\ NoOpenTx
  /\ caller \in CanCall
  /\ id \in DOMAIN subjects
  /\ IF ContentWritePolicy(caller)
       THEN LET ms == ModulesOf(id, modules)
                ss == SectionsOfModules(ms, sections) IN
            /\ subjects' = Remove(subjects, {id})
            /\ modules' = Remove(modules, ms)
            /\ sections' = Remove(sections, ss)
            /\ user_section_progress' = CascadeSectionProgress(user_section_progress, ss)
            /\ user_progress' = CascadeUserProgress(user_progress, {id})
            /\ questions' = CascadeQuestions(questions, ss)
            /\ last' = Response(caller, "subjects", "delete", "-", id, "ok", {})
       ELSE /\ UNCHANGED <<subjects, modules, sections, user_section_progress, user_progress,
                           questions>>
            /\ last' = Response(caller, "subjects", "delete", "-", id, "empty", {})
  /\ UNCHANGED <<profiles, subject_id_column, migration, ctx, null_subject_rows, auth_users, tx>>

----------------------------------------------------------------------------
\* Requests on modules

SelectModules(caller) ==
  /\ NoOpenTx
  /\ caller \in CanCall
  /\ last' = Response(caller, "modules", "select", "-", 0, "ok",
                      {id \in DOMAIN modules : ModulesSelectPolicy(caller, modules[id])})
  /\ UNCHANGED <<tables, subject_id_column, migration, ctx, null_subject_rows, auth_users, questions, tx>>

InsertModule(caller, subj) ==
  /\ NoOpenTx
  /\ caller \in CanCall
  /\ DOMAIN modules # ModuleIds
  /\ subj \in DOMAIN subjects
  /\ IF ContentWritePolicy(caller)
       THEN /\ modules' = modules @@
                 (FreshId(ModuleIds, modules) :> [subject_id |-> subj, is_active |-> TRUE])
            /\ last' = Response(caller, "modules", "insert", "-", 0, "ok", {})
       ELSE /\ UNCHANGED modules
            /\ last' = Response(caller, "modules", "insert", "-", 0, "rls", {})
  /\ UNCHANGED <<profiles, subjects, sections, user_section_progress, user_progress,
                 subject_id_column, migration, ctx, null_subject_rows, auth_users, questions, tx>>

UpdateModule(caller, id) ==
  /\ NoOpenTx
  /\ caller \in CanCall
  /\ id \in DOMAIN modules
  /\ IF ContentWritePolicy(caller)
       THEN /\ modules' = [modules EXCEPT ![id].is_active = ~@]
            /\ last' = Response(caller, "modules", "update", "-", id, "ok", {})
       ELSE /\ UNCHANGED modules
            /\ last' = Response(caller, "modules", "update", "-", id, "empty", {})
  /\ UNCHANGED <<profiles, subjects, sections, user_section_progress, user_progress,
                 subject_id_column, migration, ctx, null_subject_rows, auth_users, questions, tx>>

DeleteModule(caller, id) ==
  /\ NoOpenTx
  /\ caller \in CanCall
  /\ id \in DOMAIN modules
  /\ IF ContentWritePolicy(caller)
       THEN LET ss == SectionsOfModules({id}, sections) IN
            /\ modules' = Remove(modules, {id})
            /\ sections' = Remove(sections, ss)
            /\ user_section_progress' = CascadeSectionProgress(user_section_progress, ss)
            /\ questions' = CascadeQuestions(questions, ss)
            /\ last' = Response(caller, "modules", "delete", "-", id, "ok", {})
       ELSE /\ UNCHANGED <<modules, sections, user_section_progress, questions>>
            /\ last' = Response(caller, "modules", "delete", "-", id, "empty", {})
  /\ UNCHANGED <<profiles, subjects, user_progress, subject_id_column, migration, ctx, null_subject_rows, auth_users, tx>>

----------------------------------------------------------------------------
\* Requests on sections

InsertSection(caller, mod, type, order) ==
  /\ caller \in CanCall
  /\ DOMAIN sections # SectionIds
  /\ mod = NullId \/ mod \in DOMAIN modules
  /\ IF ContentWritePolicy(caller)
       THEN /\ sections' = sections @@ (FreshId(SectionIds, sections) :> [module_id |-> mod, type |-> type, order_index |-> order])
            /\ last' = Response(caller, "sections", "insert", "-", 0, "ok", {})
       ELSE /\ UNCHANGED sections
            /\ last' = Response(caller, "sections", "insert", "-", 0, "rls", {})
  /\ UNCHANGED <<profiles, subjects, modules, user_section_progress, user_progress,
                 subject_id_column, migration, ctx, null_subject_rows, auth_users, questions, tx>>

DeleteSection(caller, id) ==
  /\ NoOpenTx
  /\ caller \in CanCall
  /\ id \in DOMAIN sections
  /\ IF ContentWritePolicy(caller)
       THEN /\ sections' = Remove(sections, {id})
            /\ user_section_progress' = CascadeSectionProgress(user_section_progress, {id})
            /\ questions' = CascadeQuestions(questions, {id})
            /\ last' = Response(caller, "sections", "delete", "-", id, "ok", {})
       ELSE /\ UNCHANGED <<sections, user_section_progress, questions>>
            /\ last' = Response(caller, "sections", "delete", "-", id, "empty", {})
  /\ UNCHANGED <<profiles, subjects, modules, user_progress, subject_id_column, migration, ctx, null_subject_rows, auth_users, tx>>

SelectSections(caller) ==
  /\ NoOpenTx
  /\ caller \in CanCall
  /\ last' = Response(caller, "sections", "select", "-", 0, "ok",
                      {id \in DOMAIN sections : SectionsSelectPolicy(caller, sections[id])})
  /\ UNCHANGED <<tables, subject_id_column, migration, ctx, null_subject_rows, auth_users, questions, tx>>

\* handleSectionSubmit (editing): the updated columns are title, description, type,
\* content and url, none of which the model carries
UpdateSection(caller, id) ==
  /\ NoOpenTx
  /\ caller \in CanCall
  /\ id \in DOMAIN sections
  /\ last' = Response(caller, "sections", "update", "-", id,
                      IF ContentWritePolicy(caller) THEN "ok" ELSE "empty", {})
  /\ UNCHANGED <<tables, subject_id_column, migration, ctx, null_subject_rows, auth_users, questions, tx>>

----------------------------------------------------------------------------
\* Requests on questions

SelectQuestions(caller) ==
  /\ NoOpenTx
  /\ caller \in CanCall
  /\ last' = Response(caller, "questions", "select", "-", 0, "ok",
                      {id \in DOMAIN questions : QuestionsSelectPolicy(caller, questions[id])})
  /\ UNCHANGED <<tables, subject_id_column, migration, ctx, null_subject_rows, auth_users, questions, tx>>

InsertQuestion(caller, sec) ==
  /\ NoOpenTx
  /\ caller \in CanCall
  /\ DOMAIN questions # QuestionIds
  /\ sec \in DOMAIN sections
  /\ IF ContentWritePolicy(caller)
       THEN /\ questions' = questions @@ (FreshId(QuestionIds, questions) :> [section_id |-> sec])
            /\ last' = Response(caller, "questions", "insert", "-", 0, "ok", {})
       ELSE /\ UNCHANGED questions
            /\ last' = Response(caller, "questions", "insert", "-", 0, "rls", {})
  /\ UNCHANGED <<tables, subject_id_column, migration, ctx, null_subject_rows, auth_users, tx>>

\* the updated columns are the question's text, options and answer
UpdateQuestion(caller, id) ==
  /\ NoOpenTx
  /\ caller \in CanCall
  /\ id \in DOMAIN questions
  /\ last' = Response(caller, "questions", "update", "-", id,
                      IF ContentWritePolicy(caller) THEN "ok" ELSE "empty", {})
  /\ UNCHANGED <<tables, subject_id_column, migration, ctx, null_subject_rows, auth_users, questions, tx>>

DeleteQuestion(caller, id) ==
  /\ NoOpenTx
  /\ caller \in CanCall
  /\ id \in DOMAIN questions
  /\ IF ContentWritePolicy(caller)
       THEN /\ questions' = Remove(questions, {id})
            /\ last' = Response(caller, "questions", "delete", "-", id, "ok", {})
       ELSE /\ UNCHANGED questions
            /\ last' = Response(caller, "questions", "delete", "-", id, "empty", {})
  /\ UNCHANGED <<tables, subject_id_column, migration, ctx, null_subject_rows, auth_users, tx>>

----------------------------------------------------------------------------
\* Requests on user_section_progress

SelectSectionProgress(caller, owner) ==
  /\ NoOpenTx
  /\ caller \in CanCall
  /\ last' = Response(caller, "user_section_progress", "select", owner, 0, "ok",
                      {s \in SectionIds : /\ <<owner, s>> \in DOMAIN user_section_progress
                                          /\ ProgressSelectPolicy(caller, owner)})
  /\ UNCHANGED <<tables, subject_id_column, migration, ctx, null_subject_rows, auth_users, questions, tx>>

InsertSectionProgressSwallow(caller, owner, sec, completed) ==
  /\ NoOpenTx
  /\ caller \in CanCall
  /\ null_subject_rows[owner] < MaxNullRows
  /\ sec \in DOMAIN sections
  /\ LET usp == user_section_progress @@ (<<owner, sec>> :> [is_completed |-> completed]) IN
     IF ~ProgressWritePolicy(caller, owner)
       THEN /\ UNCHANGED <<user_section_progress, user_progress, null_subject_rows>>
            /\ last' = Response(caller, "user_section_progress", "insert", owner, sec, "rls", {})
     ELSE IF <<owner, sec>> \in DOMAIN user_section_progress
       THEN /\ UNCHANGED <<user_section_progress, user_progress, null_subject_rows>>
            /\ last' = Response(caller, "user_section_progress", "insert", owner, sec, "unique", {})
     ELSE /\ user_section_progress' = usp
          /\ user_progress' = IF subject_id_column
                                 THEN update_user_progress(owner, sec, usp, user_progress)
                                 ELSE user_progress
          /\ null_subject_rows' = IF subject_id_column
                                     THEN InsertNullSubjectRow(owner, sec, null_subject_rows)
                                     ELSE null_subject_rows
          /\ last' = Response(caller, "user_section_progress", "insert", owner, sec, "ok", {})
  /\ UNCHANGED <<profiles, subjects, modules, sections, subject_id_column, migration, ctx,
                 auth_users, questions, tx>>

\* markAsCompleted / submitTest: the upsert carries no id, so it conflicts on the
\* primary key only and is an INSERT of a new row
InsertSectionProgress(caller, owner, sec, completed) ==
  /\ NoOpenTx
  /\ caller \in CanCall
  /\ null_subject_rows[owner] < MaxNullRows
  /\ sec \in DOMAIN sections
  /\ LET usp == user_section_progress @@ (<<owner, sec>> :> [is_completed |-> completed]) IN
     IF ~ProgressWritePolicy(caller, owner)
       THEN /\ UNCHANGED <<user_section_progress, user_progress, null_subject_rows>>
            /\ last' = Response(caller, "user_section_progress", "insert", owner, sec, "rls", {})
     ELSE IF <<owner, sec>> \in DOMAIN user_section_progress
       THEN /\ UNCHANGED <<user_section_progress, user_progress, null_subject_rows>>
            /\ last' = Response(caller, "user_section_progress", "insert", owner, sec, "unique", {})
     ELSE IF ~subject_id_column
       THEN /\ UNCHANGED <<user_section_progress, user_progress, null_subject_rows>>
            /\ last' = Response(caller, "user_section_progress", "insert", owner, sec, "error", {})
     ELSE /\ user_section_progress' = usp
          /\ user_progress' = update_user_progress(owner, sec, usp, user_progress)
          /\ null_subject_rows' = InsertNullSubjectRow(owner, sec, null_subject_rows)
          /\ last' = Response(caller, "user_section_progress", "insert", owner, sec, "ok", {})
  /\ UNCHANGED <<profiles, subjects, modules, sections, subject_id_column, migration, ctx, auth_users, questions, tx>>

UpdateSectionProgress(caller, owner, sec, completed) ==
  /\ NoOpenTx
  /\ caller \in CanCall
  /\ null_subject_rows[owner] < MaxNullRows
  /\ <<owner, sec>> \in DOMAIN user_section_progress
  /\ LET usp == [user_section_progress EXCEPT ![<<owner, sec>>].is_completed = completed] IN
     IF ~ProgressWritePolicy(caller, owner)
       THEN /\ UNCHANGED <<user_section_progress, user_progress, null_subject_rows>>
            /\ last' = Response(caller, "user_section_progress", "update", owner, sec, "empty", {})
     ELSE IF ~subject_id_column
       THEN /\ UNCHANGED <<user_section_progress, user_progress, null_subject_rows>>
            /\ last' = Response(caller, "user_section_progress", "update", owner, sec, "error", {})
     ELSE /\ user_section_progress' = usp
          /\ user_progress' = update_user_progress(owner, sec, usp, user_progress)
          /\ null_subject_rows' = InsertNullSubjectRow(owner, sec, null_subject_rows)
          /\ last' = Response(caller, "user_section_progress", "update", owner, sec, "ok", {})
  /\ UNCHANGED <<profiles, subjects, modules, sections, subject_id_column, migration, ctx, auth_users, questions, tx>>

DeleteSectionProgress(caller, owner, sec) ==
  /\ NoOpenTx
  /\ caller \in CanCall
  /\ <<owner, sec>> \in DOMAIN user_section_progress
  /\ IF ProgressWritePolicy(caller, owner)
       THEN /\ user_section_progress' = Remove(user_section_progress, {<<owner, sec>>})
            /\ last' = Response(caller, "user_section_progress", "delete", owner, sec, "ok", {})
       ELSE /\ UNCHANGED user_section_progress
            /\ last' = Response(caller, "user_section_progress", "delete", owner, sec, "empty", {})
  /\ UNCHANGED <<profiles, subjects, modules, sections, user_progress, subject_id_column, migration, ctx, null_subject_rows, auth_users, questions, tx>>

----------------------------------------------------------------------------
\* Requests on user_progress

SelectUserProgress(caller, owner) ==
  /\ NoOpenTx
  /\ caller \in CanCall
  /\ last' = Response(caller, "user_progress", "select", owner, 0, "ok",
                      {s \in SubjectIds : /\ <<owner, s>> \in DOMAIN user_progress
                                          /\ ProgressSelectPolicy(caller, owner)})
  /\ UNCHANGED <<tables, subject_id_column, migration, ctx, null_subject_rows, auth_users, questions, tx>>

\* total_sections integer DEFAULT 0, completed_sections integer DEFAULT 0
InsertUserProgress(caller, owner, subj) ==
  /\ NoOpenTx
  /\ caller \in CanCall
  /\ subj \in DOMAIN subjects
  /\ IF ~ProgressWritePolicy(caller, owner)
       THEN /\ UNCHANGED user_progress
            /\ last' = Response(caller, "user_progress", "insert", owner, subj, "rls", {})
     ELSE IF <<owner, subj>> \in DOMAIN user_progress
       THEN /\ UNCHANGED user_progress
            /\ last' = Response(caller, "user_progress", "insert", owner, subj, "unique", {})
     ELSE /\ user_progress' = user_progress @@
               (<<owner, subj>> :> [total_sections |-> 0, completed_sections |-> 0])
          /\ last' = Response(caller, "user_progress", "insert", owner, subj, "ok", {})
  /\ UNCHANGED <<profiles, subjects, modules, sections, user_section_progress,
                 subject_id_column, migration, ctx, null_subject_rows, auth_users, questions, tx>>

UpdateUserProgress(caller, owner, subj, completed) ==
  /\ NoOpenTx
  /\ caller \in CanCall
  /\ <<owner, subj>> \in DOMAIN user_progress
  /\ IF ProgressWritePolicy(caller, owner)
       THEN /\ user_progress' =
                 [user_progress EXCEPT ![<<owner, subj>>].completed_sections = completed]
            /\ last' = Response(caller, "user_progress", "update", owner, subj, "ok", {})
       ELSE /\ UNCHANGED user_progress
            /\ last' = Response(caller, "user_progress", "update", owner, subj, "empty", {})
  /\ UNCHANGED <<profiles, subjects, modules, sections, user_section_progress,
                 subject_id_column, migration, ctx, null_subject_rows, auth_users, questions, tx>>

DeleteUserProgress(caller, owner, subj) ==
  /\ NoOpenTx
  /\ caller \in CanCall
  /\ <<owner, subj>> \in DOMAIN user_progress
  /\ IF ProgressWritePolicy(caller, owner)
       THEN /\ user_progress' = Remove(user_progress, {<<owner, subj>>})
            /\ last' = Response(caller, "user_progress", "delete", owner, subj, "ok", {})
       ELSE /\ UNCHANGED user_progress
            /\ last' = Response(caller, "user_progress", "delete", owner, subj, "empty", {})
  /\ UNCHANGED <<profiles, subjects, modules, sections, user_section_progress,
                 subject_id_column, migration, ctx, null_subject_rows, auth_users, questions, tx>>

----------------------------------------------------------------------------
\* Requests on profiles

\* Database.profiles.Update carries role; the policy names no column
UpdateProfile(caller, id, role) ==
  /\ NoOpenTx
  /\ caller \in CanCall
  /\ IF ProfilesUpdatePolicy(caller, id) /\ profiles[id] # "-"
       THEN /\ profiles' = [profiles EXCEPT ![id] = role]
            /\ last' = Response(caller, "profiles", "update", id, 0, "ok", {})
       ELSE /\ UNCHANGED profiles
            /\ last' = Response(caller, "profiles", "update", id, 0, "empty", {})
  /\ UNCHANGED <<subjects, modules, sections, user_section_progress, user_progress,
                 subject_id_column, migration, ctx, null_subject_rows, auth_users, questions, tx>>

SelectProfiles(caller) ==
  /\ NoOpenTx
  /\ caller \in CanCall
  /\ last' = Response(caller, "profiles", "select", "-", 0, "ok",
                      {id \in Users : profiles[id] # "-" /\ ProfilesSelectPolicy(caller, id)})
  /\ UNCHANGED <<tables, subject_id_column, migration, ctx, null_subject_rows, auth_users, questions, tx>>

\* id uuid PRIMARY KEY REFERENCES auth.users(id); role CHECK (role IN ('admin', 'student'))
InsertProfile(caller, id, role) ==
  /\ NoOpenTx
  /\ caller \in CanCall
  /\ IF ~ProfilesInsertPolicy(caller, id)
       THEN /\ UNCHANGED profiles
            /\ last' = Response(caller, "profiles", "insert", id, 0, "rls", {})
     ELSE IF profiles[id] # "-"
       THEN /\ UNCHANGED profiles
            /\ last' = Response(caller, "profiles", "insert", id, 0, "unique", {})
     ELSE IF auth_users[id] = "-"
       THEN /\ UNCHANGED profiles
            /\ last' = Response(caller, "profiles", "insert", id, 0, "fk", {})
     ELSE /\ profiles' = [profiles EXCEPT ![id] = role]
          /\ last' = Response(caller, "profiles", "insert", id, 0, "ok", {})
  /\ UNCHANGED <<subjects, modules, sections, user_section_progress, user_progress,
                 subject_id_column, migration, ctx, null_subject_rows, auth_users, questions, tx>>

\* no policy on profiles is FOR DELETE or FOR ALL
DeleteProfile(caller, id) ==
  /\ NoOpenTx
  /\ caller \in CanCall
  /\ profiles[id] # "-"
  /\ last' = Response(caller, "profiles", "delete", id, 0, "empty", {})
  /\ UNCHANGED <<tables, subject_id_column, migration, ctx, null_subject_rows, auth_users, questions, tx>>

SignUpDefaultAdmin(id, claim) ==
  /\ NoOpenTx
  /\ auth_users[id] = "-"
  /\ IF claim \in Roles \cup {"none"}
       THEN /\ auth_users' = [auth_users EXCEPT ![id] = claim]
            /\ profiles' = [profiles EXCEPT ![id] = IF claim = "none" THEN "admin" ELSE claim]
            /\ last' = Response(id, "auth.users", "signup", id, 0, "ok", {})
       ELSE /\ UNCHANGED <<auth_users, profiles>>
            /\ last' = Response(id, "auth.users", "signup", id, 0, "error", {})
  /\ UNCHANGED <<subjects, modules, sections, user_section_progress, user_progress,
                 subject_id_column, migration, ctx, null_subject_rows, questions, tx>>

SignUpOverwrite(id, claim) ==
  /\ NoOpenTx
  /\ IF claim \in Roles \cup {"none"}
       THEN /\ auth_users' = [auth_users EXCEPT ![id] = claim]
            /\ profiles' = [profiles EXCEPT ![id] = IF claim = "none" THEN "student" ELSE claim]
            /\ last' = Response(id, "auth.users", "signup", id, 0, "ok", {})
       ELSE /\ UNCHANGED <<auth_users, profiles>>
            /\ last' = Response(id, "auth.users", "signup", id, 0, "error", {})
  /\ UNCHANGED <<subjects, modules, sections, user_section_progress, user_progress,
                 subject_id_column, migration, ctx, null_subject_rows, questions, tx>>

\* handle_new_user (AFTER INSERT ON auth.users): the profiles row of the new identity,
\* role COALESCE(raw_user_meta_data->>'role', 'student'); a role outside the CHECK
\* fails the insert and with it the registration. Fired for an identity that has
\* its row, the INSERT (no ON CONFLICT) fails on the primary key.
SignUp(id, claim) ==
  /\ NoOpenTx
  /\ IF auth_users[id] # "-"
       THEN /\ UNCHANGED <<auth_users, profiles>>
            /\ last' = Response(id, "auth.users", "signup", id, 0, "unique", {})
     ELSE IF claim \in Roles \cup {"none"}
       THEN /\ auth_users' = [auth_users EXCEPT ![id] = claim]
            /\ profiles' = [profiles EXCEPT ![id] = IF claim = "none" THEN "student" ELSE claim]
            /\ last' = Response(id, "auth.users", "signup", id, 0, "ok", {})
       ELSE /\ UNCHANGED <<auth_users, profiles>>
            /\ last' = Response(id, "auth.users", "signup", id, 0, "error", {})
  /\ UNCHANGED <<subjects, modules, sections, user_section_progress, user_progress,
                 subject_id_column, migration, ctx, null_subject_rows, questions, tx>>

----------------------------------------------------------------------------
\* Overlapping writes of user_section_progress (READ COMMITTED): the row write and
\* the trigger's INSERT ... SELECT read the committed tables and the transaction's
\* own row; the ON CONFLICT arm waits for a concurrent writer of the same
\* user_progress row and then overwrites it with the counts already computed.

OpenTx(t) == tx[t].pc \in {"resolved", "totalled", "computed", "upserted"}

\* the committed user_section_progress with the transaction's own row
OwnSnapshot(owner, sec, completed) ==
  [k \in DOMAIN user_section_progress \cup {<<owner, sec>>} |->
     IF k = <<owner, sec>> THEN [is_completed |-> completed] ELSE user_section_progress[k]]

TxWrite(t, owner, sec, completed) ==
  /\ ~OpenTx(t)
  /\ sec \in DOMAIN sections
  /\ SubjectOfSection(sec) # {}
  /\ \A o \in Sessions \ {t} :
       OpenTx(o) => ~(tx[o].user_id = owner /\ tx[o].section_id = sec)
  /\ IF ~subject_id_column
       THEN /\ tx' = [tx EXCEPT ![t] = IdleTx]
            /\ last' = Response(owner, "user_section_progress", "upsert", owner, sec, "error", {})
       ELSE LET subj == CHOOSE s \in SubjectOfSection(sec) : TRUE
                usp == OwnSnapshot(owner, sec, completed) IN
            /\ tx' = [tx EXCEPT ![t] =
                 [pc |-> "computed", user_id |-> owner, section_id |-> sec,
                  is_completed |-> completed, subject_id |-> subj,
                  total_sections |-> TotalSections(subj, modules, sections),
                  completed_sections |->
                    CompletedSections(owner, subj, modules, sections, usp)]]
            /\ last' = Response(owner, "user_section_progress", "upsert", owner, sec, "-", {})
  /\ UNCHANGED <<tables, subject_id_column, migration, ctx, null_subject_rows, auth_users, questions>>

\* part_000 update_user_progress(), one statement at a time (READ COMMITTED: each
\* statement reads what is committed when it starts, and the transaction's own row).
\* The row write and SELECT s.subject_id INTO subject_uuid
TxSelectSubject(t, owner, sec, completed) ==
  /\ migration = "part_000"
  /\ ~OpenTx(t)
  /\ sec \in DOMAIN sections
  /\ SubjectOfSection(sec) # {}
  /\ \A o \in Sessions \ {t} :
       OpenTx(o) => ~(tx[o].user_id = owner /\ tx[o].section_id = sec)
  /\ IF ~subject_id_column
       THEN /\ tx' = [tx EXCEPT ![t] = IdleTx]
            /\ last' = Response(owner, "user_section_progress", "upsert", owner, sec, "error", {})
       ELSE /\ tx' = [tx EXCEPT ![t] =
                 [pc |-> "resolved", user_id |-> owner, section_id |-> sec,
                  is_completed |-> completed,
                  subject_id |-> CHOOSE s \in SubjectOfSection(sec) : TRUE,
                  total_sections |-> 0, completed_sections |-> 0]]
            /\ last' = Response(owner, "user_section_progress", "upsert", owner, sec, "-", {})
  /\ UNCHANGED <<tables, subject_id_column, migration, ctx, null_subject_rows, auth_users, questions>>

\* SELECT COUNT(*) INTO total_sections_count
TxCountTotal(t) ==
  /\ tx[t].pc = "resolved"
  /\ tx' = [tx EXCEPT ![t].pc = "totalled",
                      ![t].total_sections = TotalSections(tx[t].subject_id, modules, sections)]
  /\ UNCHANGED <<tables, subject_id_column, migration, ctx, null_subject_rows, auth_users, questions, last>>

\* SELECT COUNT(*) INTO completed_sections_count
TxCountCompleted(t) ==
  /\ tx[t].pc = "totalled"
  /\ tx' = [tx EXCEPT ![t].pc = "computed",
                      ![t].completed_sections =
                        CompletedSections(tx[t].user_id, tx[t].subject_id, modules, sections,
                          OwnSnapshot(tx[t].user_id, tx[t].section_id, tx[t].is_completed))]
  /\ UNCHANGED <<tables, subject_id_column, migration, ctx, null_subject_rows, auth_users, questions, last>>

TxUpsert(t) ==
  /\ tx[t].pc = "computed"
  /\ \A o \in Sessions \ {t} :
       tx[o].pc = "upserted" =>
         ~(tx[o].user_id = tx[t].user_id /\ tx[o].subject_id = tx[t].subject_id)
  /\ tx' = [tx EXCEPT ![t].pc = "upserted"]
  /\ UNCHANGED <<tables, subject_id_column, migration, ctx, null_subject_rows, auth_users, questions, last>>

TxCommitRowOnly(t) ==
  /\ tx[t].pc = "upserted"
  /\ user_section_progress' =
       OwnSnapshot(tx[t].user_id, tx[t].section_id, tx[t].is_completed)
  /\ tx' = [tx EXCEPT ![t].pc = "done"]
  /\ last' = Response(tx[t].user_id, "user_section_progress", "upsert", tx[t].user_id,
                      tx[t].section_id, "ok", {})
  /\ UNCHANGED <<profiles, subjects, modules, sections, user_progress, subject_id_column, migration, ctx, null_subject_rows, auth_users, questions>>

\* COMMIT of the request: the row and the trigger's upsert become visible together
TxCommit(t) ==
  /\ tx[t].pc = "upserted"
  /\ user_section_progress' =
       OwnSnapshot(tx[t].user_id, tx[t].section_id, tx[t].is_completed)
  /\ user_progress' = UpsertUserProgress(user_progress, tx[t].user_id, tx[t].subject_id,
                                         tx[t].total_sections, tx[t].completed_sections)
  /\ tx' = [tx EXCEPT ![t].pc = "done"]
  /\ last' = Response(tx[t].user_id, "user_section_progress", "upsert", tx[t].user_id,
                      tx[t].section_id, "ok", {})
  /\ UNCHANGED <<profiles, subjects, modules, sections, subject_id_column, migration, ctx, null_subject_rows, auth_users, questions>>

----------------------------------------------------------------------------
\* The auth context of a browser tab. Two versions of the provider are in the
\* repository (contexts/AuthContext.tsx and part_002) and two of the route guard
\* (ui/ProtectedRoute.tsx and part_006); a tab runs one of each.

maxRetries == 3
RetryDelay(retryCount) == 1000 * retryCount

Providers == {"AuthContext.tsx", "part_002"}
Guards == {"ProtectedRoute.tsx", "part_006"}
NoProfile == [id |-> "-", role |-> "-"]

\* useState initial values and the first statements of the effect: getSession is
\* awaited (part_002 has armed its 5000 ms timeout); stored is the session the
\* supabase client holds
Mounted(provider, guard, stored) ==
  [provider |-> provider, guard |-> guard, mounted |-> TRUE, stored |-> stored,
   user |-> "-", profile |-> NoProfile, loading |-> TRUE, initialized |-> FALSE,
   pc |-> "getSession", initUser |-> "-", retryCount |-> 0, delay |-> 0,
   timeout |-> (provider = "part_002"), fetching |-> {}, signingOut |-> FALSE]

ClosedTab ==
  [provider |-> "-", guard |-> "-", mounted |-> FALSE, stored |-> "-",
   user |-> "-", profile |-> NoProfile, loading |-> FALSE, initialized |-> FALSE,
   pc |-> "done", initUser |-> "-", retryCount |-> 0, delay |-> 0,
   timeout |-> FALSE, fetching |-> {}, signingOut |-> FALSE]

\* supabase.from('profiles').select('*').eq('id', userId).single()
ProfileRow(u) == IF profiles[u] = "-" THEN NoProfile ELSE [id |-> u, role |-> profiles[u]]

\* React drops the state updates of an unmounted component: only the bookkeeping
\* of the running closures moves on. A state update re-renders the tree, so what
\* the router rendered before is no longer on the screen.
Commit(n) ==
  /\ ctx' = IF ctx.mounted THEN n
            ELSE [ctx EXCEPT !.pc = n.pc, !.retryCount = n.retryCount, !.delay = n.delay,
                             !.fetching = n.fetching, !.initUser = n.initUser]
  /\ last' = NoRequest
  /\ UNCHANGED <<tables, subject_id_column, migration, null_subject_rows, auth_users,
                 questions, tx>>

\* setLoading(false); setInitialized(true)
Finish(c) == [c EXCEPT !.pc = "done", !.loading = FALSE, !.initialized = TRUE]

RetryNoCount(c) == [c EXCEPT !.pc = "retryWait", !.delay = RetryDelay(c.retryCount + 1)]

\* retryCount++; setTimeout(initializeAuth, 1000 * retryCount); return
Retry(c) == [c EXCEPT !.pc = "retryWait", !.retryCount = c.retryCount + 1,
                      !.delay = RetryDelay(c.retryCount + 1)]

\* what initializeAuth / initAuth does once getSession has settled
\* (outcome: a session or none, an error naming 'fetch', another error, an exception)
GetSessionSettled(c, outcome) ==
  IF c.provider = "AuthContext.tsx"
    THEN CASE outcome = "ok" ->
                IF ~c.mounted THEN [c EXCEPT !.pc = "done"]
                ELSE IF c.stored # "-"
                  THEN [c EXCEPT !.user = c.stored, !.initUser = c.stored, !.pc = "fetchProfile"]
                  ELSE Finish([c EXCEPT !.user = "-", !.profile = NoProfile])
           [] outcome = "fetch error" ->
                IF c.retryCount < maxRetries THEN Retry(c) ELSE Finish(c)
           [] outcome = "error" -> Finish(c)
           [] OTHER ->
                IF c.retryCount < maxRetries THEN Retry(c) ELSE Finish(c)
    ELSE IF outcome = "ok"
      THEN IF ~c.mounted THEN [c EXCEPT !.pc = "done"]
           ELSE IF c.stored # "-"
             THEN [c EXCEPT !.timeout = FALSE, !.user = c.stored, !.initUser = c.stored,
                            !.pc = "fetchProfile"]
             ELSE Finish([c EXCEPT !.timeout = FALSE])
      ELSE Finish(c)

GetSessionReturns(outcome) ==
  /\ ctx.pc = "getSession"
  /\ Commit(GetSessionSettled(ctx, outcome))

\* setTimeout(initializeAuth, 1000 * retryCount)
RetryTimerFires ==
  /\ ctx.pc = "retryWait"
  /\ Commit([ctx EXCEPT !.pc = "getSession"])

\* the profile fetch of the initialization settles (found: with a row)
InitProfileReturns(found) ==
  /\ ctx.pc = "fetchProfile"
  /\ LET row == IF found THEN ProfileRow(ctx.initUser) ELSE NoProfile IN
     Commit(Finish(IF ctx.provider = "AuthContext.tsx" THEN [ctx EXCEPT !.profile = row]
                   ELSE IF row # NoProfile THEN [ctx EXCEPT !.profile = row]
                   ELSE ctx))

\* part_002: the 5000 ms timeout of initAuth
TimeoutFires ==
  /\ ctx.timeout /\ ctx.mounted
  /\ Commit([ctx EXCEPT !.timeout = FALSE, !.loading = FALSE, !.initialized = TRUE])

\* onAuthStateChange, SIGNED_OUT (this tab's signOut, another tab's, or the
\* session's end)
SignedOutEvent ==
  /\ ctx.mounted /\ ctx.stored # "-"
  /\ Commit([ctx EXCEPT !.stored = "-", !.user = "-", !.profile = NoProfile,
                        !.loading = FALSE])

\* onAuthStateChange, SIGNED_IN: the profile fetch is started and awaited
SignedInEvent(u) ==
  /\ ctx.mounted /\ auth_users[u] # "-"
  /\ Commit([ctx EXCEPT !.stored = u, !.user = u, !.fetching = @ \cup {u}])

\* onAuthStateChange, TOKEN_REFRESHED
TokenRefreshedEvent ==
  /\ ctx.mounted /\ ctx.stored # "-"
  /\ Commit(IF ctx.provider = "AuthContext.tsx"
              THEN [ctx EXCEPT !.user = ctx.stored, !.fetching = @ \cup {ctx.stored}]
              ELSE [ctx EXCEPT !.user = ctx.stored, !.loading = FALSE])

\* the profile fetch a handler awaits settles: setProfile of what was fetched for
\* the user of that event, then setLoading(false)
HandlerProfileReturns(u, found) ==
  /\ u \in ctx.fetching
  /\ LET row == IF found THEN ProfileRow(u) ELSE NoProfile
         c == [ctx EXCEPT !.fetching = @ \ {u}, !.loading = FALSE] IN
     Commit(IF ctx.provider = "AuthContext.tsx" THEN [c EXCEPT !.profile = row]
            ELSE IF row # NoProfile THEN [c EXCEPT !.profile = row]
            ELSE c)

\* signOut(): the state is cleared, supabase.auth.signOut() is awaited
signOut ==
  /\ ctx.mounted /\ ctx.initialized /\ ctx.user # "-" /\ ~ctx.signingOut
  /\ Commit([ctx EXCEPT !.loading = TRUE, !.user = "-", !.profile = NoProfile,
                        !.signingOut = TRUE])

\* supabase.auth.signOut() has settled; window.location.href = '/login' or
\* window.location.replace('/login'): the page is loaded anew
Reload ==
  /\ ctx.mounted /\ ctx.signingOut
  /\ Commit(Mounted(ctx.provider, ctx.guard, "-"))

\* the effect's cleanup
Unmount ==
  /\ ctx.mounted
  /\ ctx' = [ctx EXCEPT !.mounted = FALSE, !.timeout = FALSE]
  /\ last' = NoRequest
  /\ UNCHANGED <<tables, subject_id_column, migration, null_subject_rows, auth_users,
                 questions, tx>>

\* App: the guarded routes
Routes ==
  { [path |-> "/dashboard", requireAdmin |-> FALSE, requireStudent |-> TRUE],
    [path |-> "/subjects/:subjectId", requireAdmin |-> FALSE, requireStudent |-> TRUE],
    [path |-> "/subjects/:subjectId/modules/:moduleId/sections/:sectionId",
     requireAdmin |-> FALSE, requireStudent |-> TRUE],
    [path |-> "/admin", requireAdmin |-> TRUE, requireStudent |-> FALSE],
    [path |-> "/admin/subjects", requireAdmin |-> TRUE, requireStudent |-> FALSE],
    [path |-> "/admin/subjects/:subjectId", requireAdmin |-> TRUE, requireStudent |-> FALSE],
    [path |-> "/admin/subjects/:subjectId/modules/:moduleId/sections/:sectionId/questions",
     requireAdmin |-> TRUE, requireStudent |-> FALSE] }

ProtectedRouteNoRoleCheck(c, requireAdmin, requireStudent) ==
  IF c.loading THEN "spinner"
  ELSE IF c.guard = "part_006"
    THEN IF c.user = "-" \/ c.profile = NoProfile THEN "/login" ELSE "children"
  ELSE IF c.user = "-" THEN "/login"
  ELSE IF c.profile = NoProfile THEN "spinner"
  ELSE "children"

\* ProtectedRoute: what it returns for the context it reads
ProtectedRoute(c, requireAdmin, requireStudent) ==
  IF c.loading THEN "spinner"
  ELSE IF c.guard = "part_006" /\ (c.user = "-" \/ c.profile = NoProfile) THEN "/login"
  ELSE IF c.user = "-" THEN "/login"
  ELSE IF c.profile = NoProfile THEN "spinner"
  ELSE IF requireAdmin /\ c.profile.role # "admin" THEN "/dashboard"
  ELSE IF requireStudent /\ c.profile.role # "student" THEN "/admin"
  ELSE "children"

\* the router renders the element of a route; the provider renders its children
\* once initialized
Render(route) ==
  /\ ctx.mounted /\ ctx.initialized
  /\ last' = Response(ctx.user, route.path, "render", "-", 0,
                      ProtectedRoute(ctx, route.requireAdmin, route.requireStudent), {})
  /\ UNCHANGED <<tables, subject_id_column, migration, null_subject_rows, ctx, auth_users,
                 questions, tx>>

----------------------------------------------------------------------------
\* The client: ModuleManagement (admin) and SectionView (student)

\* Math.max(...selectedModule.sections.map(s => s.order_index), -1)
MaxOrder(mod) ==
  LET orders == {sections[s].order_index : s \in SectionsOfModules({mod}, sections)} IN
    IF orders = {} THEN -1 ELSE CHOOSE o \in orders : \A x \in orders : x <= o

\* handleSectionSubmit, create branch: the new section goes last in its module
handleSectionSubmit(caller, mod, type) ==
  /\ mod \in DOMAIN modules
  /\ InsertSection(caller, mod, type, MaxOrder(mod) + 1)

QuestionsOf(sec) == {q \in DOMAIN questions : questions[q].section_id = sec}

\* (correctAnswers / questions.length) * 100; 0 / 0 is NaN
FinalScore(correctAnswers, length) ==
  IF length = 0 THEN "NaN" ELSE (correctAnswers * 100) \div length

\* SectionView is rendered for the section of the route, whatever the state of the
\* sections before it; the button is there for every type but test
markAsCompleted(user, sec) ==
  /\ profiles[user] = "student"
  /\ sec \in DOMAIN sections
  /\ sections[sec].type # "test"
  /\ InsertSectionProgress(user, user, sec, TRUE)

submitTestUpsertsScore(user, sec, correctAnswers) ==
  /\ profiles[user] = "student"
  /\ sec \in DOMAIN sections
  /\ sections[sec].type = "test"
  /\ QuestionsOf(sec) # {}
  /\ correctAnswers <= Cardinality(QuestionsOf(sec))
  /\ IF <<user, sec>> \in DOMAIN user_section_progress
       THEN UpdateSectionProgress(user, user, sec,
              FinalScore(correctAnswers, Cardinality(QuestionsOf(sec))) = 100)
       ELSE InsertSectionProgress(user, user, sec,
              FinalScore(correctAnswers, Cardinality(QuestionsOf(sec))) = 100)

submitTestAlwaysWrites(user, sec, correctAnswers) ==
  /\ profiles[user] = "student"
  /\ sec \in DOMAIN sections
  /\ sections[sec].type = "test"
  /\ QuestionsOf(sec) # {}
  /\ correctAnswers <= Cardinality(QuestionsOf(sec))
  /\ InsertSectionProgress(user, user, sec,
                           FinalScore(correctAnswers, Cardinality(QuestionsOf(sec))) = 100)

\* submitTest: the Submit button is rendered on the last question, so only when the
\* test has a question; the upsert is sent only for a score of 100
submitTest(user, sec, correctAnswers) ==
  /\ profiles[user] = "student"
  /\ sec \in DOMAIN sections
  /\ sections[sec].type = "test"
  /\ QuestionsOf(sec) # {}
  /\ correctAnswers <= Cardinality(QuestionsOf(sec))
  /\ IF FinalScore(correctAnswers, Cardinality(QuestionsOf(sec))) = 100
       THEN InsertSectionProgress(user, user, sec, TRUE)
       ELSE /\ NoOpenTx
            /\ last' = Response(user, "-", "submitTest", user, sec, "-", {})
            /\ UNCHANGED <<tables, subject_id_column, migration, ctx, null_subject_rows,
                           auth_users, questions, tx>>

----------------------------------------------------------------------------
Init ==
  /\ profiles = SignupRole
  /\ subjects = <<>>
  /\ modules = <<>>
  /\ sections = <<>>
  /\ user_section_progress = <<>>
  /\ user_progress = <<>>
  /\ subject_id_column \in BOOLEAN
  /\ migration = "proud_feather"
  /\ null_subject_rows = [u \in Users |-> 0]
  /\ ctx = ClosedTab
  /\ auth_users = SignupRole
  /\ questions = <<>>
  /\ tx = [t \in Sessions |-> IdleTx]
  /\ last = NoRequest

ContentNext ==
  \E caller \in Users :
    \/ InsertSubject(caller)
    \/ \E id \in SubjectIds : UpdateSubject(caller, id) \/ DeleteSubject(caller, id)
    \/ \E subj \in SubjectIds : InsertModule(caller, subj)
    \/ \E id \in ModuleIds : UpdateModule(caller, id) \/ DeleteModule(caller, id)
    \/ \E mod \in ModuleIds : InsertSection(caller, mod, "source", 0)
    \/ \E id \in SectionIds : DeleteSection(caller, id)

SelectNext ==
  \E caller \in Users :
    \/ SelectSubjects(caller)
    \/ SelectModules(caller)
    \/ \E owner \in RowOwners : SelectSectionProgress(caller, owner)
    \/ \E owner \in RowOwners : SelectUserProgress(caller, owner)

ProgressNext ==
  \E caller \in Users, owner \in RowOwners :
    \/ \E sec \in SectionIds, completed \in BOOLEAN :
         \/ InsertSectionProgress(caller, owner, sec, completed)
         \/ UpdateSectionProgress(caller, owner, sec, completed)
    \/ \E sec \in SectionIds : DeleteSectionProgress(caller, owner, sec)
    \/ \E subj \in SubjectIds : InsertUserProgress(caller, owner, subj)
    \/ \E subj \in SubjectIds, completed \in 0..1 :
         UpdateUserProgress(caller, owner, subj, completed)
    \/ \E subj \in SubjectIds : DeleteUserProgress(caller, owner, subj)

ProfileNext ==
  \E caller \in Users, id \in Users, role \in Roles : UpdateProfile(caller, id, role)

Next == ContentNext \/ ProgressNext \/ SelectNext \/ ProfileNext

Spec == Init /\ [][Next]_vars

TxNext ==
  \/ ContentNext
  \/ \E t \in Sessions :
       \/ \E owner \in RowOwners, sec \in SectionIds, completed \in BOOLEAN :
            TxWrite(t, owner, sec, completed)
       \/ TxUpsert(t)
       \/ TxCommit(t)

TxSpec == Init /\ [][TxNext]_vars

\* part_000 as the installed migration: hierarchy inserts and deletes by the
\* accounts, and section completions of two sessions, statement by statement
Part000Init ==
  /\ profiles = SignupRole
  /\ subjects = <<>>
  /\ modules = <<>>
  /\ sections = <<>>
  /\ user_section_progress = <<>>
  /\ user_progress = <<>>
  /\ subject_id_column \in BOOLEAN
  /\ migration = "part_000"
  /\ null_subject_rows = [u \in Users |-> 0]
  /\ ctx = ClosedTab
  /\ auth_users = SignupRole
  /\ questions = <<>>
  /\ tx = [t \in Sessions |-> IdleTx]
  /\ last = NoRequest

Part000Next ==
  \/ \E caller \in Users :
       \/ InsertSubject(caller)
       \/ \E id \in SubjectIds : DeleteSubject(caller, id)
       \/ \E subj \in SubjectIds : InsertModule(caller, subj)
       \/ \E id \in ModuleIds : DeleteModule(caller, id)
       \/ \E mod \in ModuleIds : InsertSection(caller, mod, "source", 0)
       \/ \E id \in SectionIds : DeleteSection(caller, id)
  \/ \E t \in Sessions :
       \/ \E owner \in RowOwners, sec \in SectionIds, completed \in BOOLEAN :
            TxSelectSubject(t, owner, sec, completed)
       \/ TxCountTotal(t)
       \/ TxCountCompleted(t)
       \/ TxUpsert(t)
       \/ TxCommit(t)

Part000Spec == Part000Init /\ [][Part000Next]_vars

\* sections.module_id is nullable: sections that belong to no module, and the
\* progress writes on them, under either migration
NullModuleInit ==
  /\ profiles = SignupRole
  /\ subjects = <<>>
  /\ modules = <<>>
  /\ sections = <<>>
  /\ user_section_progress = <<>>
  /\ user_progress = <<>>
  /\ subject_id_column \in BOOLEAN
  /\ migration \in {"proud_feather", "part_000"}
  /\ null_subject_rows = [u \in Users |-> 0]
  /\ ctx = ClosedTab
  /\ auth_users = SignupRole
  /\ questions = <<>>
  /\ tx = [t \in Sessions |-> IdleTx]
  /\ last = NoRequest

NullModuleNext ==
  \E caller \in Users :
    \/ InsertSubject(caller)
    \/ \E subj \in SubjectIds : InsertModule(caller, subj)
    \/ \E mod \in ModuleIds \cup {NullId} : InsertSection(caller, mod, "source", 0)
    \/ \E id \in SectionIds : DeleteSection(caller, id)
    \/ \E owner \in RowOwners, sec \in SectionIds, completed \in BOOLEAN :
         \/ InsertSectionProgress(caller, owner, sec, completed)
         \/ UpdateSectionProgress(caller, owner, sec, completed)

NullModuleSpec == NullModuleInit /\ [][NullModuleNext]_vars

\* the admin builds the hierarchy in ModuleManagement and QuestionManagement while
\* the students work through SectionView
ClientNext ==
  \/ \E caller \in Users :
       \/ InsertSubject(caller)
       \/ \E subj \in SubjectIds : InsertModule(caller, subj)
       \/ \E mod \in ModuleIds, type \in SectionTypes : handleSectionSubmit(caller, mod, type)
       \/ \E sec \in SectionIds : InsertQuestion(caller, sec)
  \/ \E user \in Users, sec \in SectionIds :
       \/ markAsCompleted(user, sec)
       \/ \E correctAnswers \in 0..MaxQuestions : submitTest(user, sec, correctAnswers)

ClientSpec == Init /\ [][ClientNext]_vars

\* StudentDashboard.fetchProgress: the subjects with their modules' sections, then
\* the user's user_progress rows; one displayed record per subject. The percentage
\* is a JavaScript number in the code and its integer part here.
SubjectProgress(user) ==
  { LET totalSections ==
          Cardinality({sec \in SectionsOf(subj, modules, sections) :
                         /\ SectionsSelectPolicy(user, sections[sec])
                         /\ ModulesSelectPolicy(user, modules[sections[sec].module_id])})
        completedSections ==
          IF <<user, subj>> \in DOMAIN user_progress /\ ProgressSelectPolicy(user, user)
            THEN user_progress[<<user, subj>>].completed_sections ELSE 0
    IN [id |-> subj,
        total_sections |-> totalSections,
        completed_sections |-> completedSections,
        progress_percentage |->
          IF totalSections > 0 THEN (completedSections * 100) \div totalSections ELSE 0]
    : subj \in {id \in DOMAIN subjects :
                  subjects[id].is_active /\ SubjectsSelectPolicy(user, subjects[id])} }

fetchProgress(user) ==
  /\ NoOpenTx
  /\ Authenticated(user) /\ profiles[user] = "student"
  /\ last' = Response(user, "dashboard", "fetchProgress", user, 0, "ok", SubjectProgress(user))
  /\ UNCHANGED <<tables, subject_id_column, migration, ctx, null_subject_rows, auth_users,
                 questions, tx>>

\* the admin builds and prunes the hierarchy, the students complete sections and
\* look at their dashboard
DashboardNext ==
  \/ \E caller \in Users :
       \/ InsertSubject(caller)
       \/ \E subj \in SubjectIds : InsertModule(caller, subj)
       \/ \E mod \in ModuleIds : InsertSection(caller, mod, "source", 0)
       \/ \E id \in SectionIds : DeleteSection(caller, id)
  \/ \E user \in Users :
       \/ \E sec \in SectionIds : markAsCompleted(user, sec)
       \/ fetchProgress(user)

DashboardSpec == Init /\ [][DashboardNext]_vars

\* one browser tab over a database with the two registered accounts
TabInit ==
  /\ profiles = SignupRole
  /\ subjects = <<>>
  /\ modules = <<>>
  /\ sections = <<>>
  /\ user_section_progress = <<>>
  /\ user_progress = <<>>
  /\ subject_id_column = TRUE
  /\ migration = "proud_feather"
  /\ null_subject_rows = [u \in Users |-> 0]
  /\ \E provider \in Providers, guard \in Guards, stored \in Users \cup {"-"} :
       ctx = Mounted(provider, guard, stored)
  /\ auth_users = SignupRole
  /\ questions = <<>>
  /\ tx = [t \in Sessions |-> IdleTx]
  /\ last = NoRequest

InitStep ==
  \/ \E outcome \in {"ok", "fetch error", "error", "throw"} : GetSessionReturns(outcome)
  \/ RetryTimerFires
  \/ \E found \in BOOLEAN : InitProfileReturns(found)
  \/ TimeoutFires

TabNext ==
  \/ \E outcome \in {"ok", "fetch error", "error", "throw"} : GetSessionReturns(outcome)
  \/ RetryTimerFires
  \/ \E found \in BOOLEAN : InitProfileReturns(found)
  \/ TimeoutFires
  \/ SignedOutEvent
  \/ \E u \in Users : SignedInEvent(u)
  \/ TokenRefreshedEvent
  \/ \E u \in Users, found \in BOOLEAN : HandlerProfileReturns(u, found)
  \/ signOut
  \/ Reload
  \/ Unmount
  \/ \E route \in Routes : Render(route)

TabSpec == TabInit /\ [][TabNext]_vars

\* the event loop runs a settled promise's continuation and a due timer, and a
\* request of the client library settles
TabFairSpec == TabSpec /\ WF_vars(InitStep)

\* Registration and the requests on profiles and subjects, from an empty database,
\* under either migration
AuthInit ==
  /\ profiles = [u \in Users |-> "-"]
  /\ subjects = <<>>
  /\ modules = <<>>
  /\ sections = <<>>
  /\ user_section_progress = <<>>
  /\ user_progress = <<>>
  /\ subject_id_column \in BOOLEAN
  /\ migration \in {"proud_feather", "part_000"}
  /\ null_subject_rows = [u \in Users |-> 0]
  /\ ctx = ClosedTab
  /\ auth_users = [u \in Users |-> "-"]
  /\ questions = <<>>
  /\ tx = [t \in Sessions |-> IdleTx]
  /\ last = NoRequest

AuthNext ==
  \/ \E id \in Users, claim \in RoleClaims : SignUp(id, claim)
  \/ \E caller \in Callers :
       \/ SelectProfiles(caller)
       \/ \E id \in Users, role \in Roles : InsertProfile(caller, id, role)
       \/ \E id \in Users, role \in Roles : UpdateProfile(caller, id, role)
       \/ \E id \in Users : DeleteProfile(caller, id)
       \/ SelectSubjects(caller)
       \/ InsertSubject(caller)
       \/ \E id \in SubjectIds : UpdateSubject(caller, id)

AuthSpec == AuthInit /\ [][AuthNext]_vars

\* Every request of every caller, with or without a token, on the content tables,
\* profiles and user_progress, under either migration
PolicyInit ==
  /\ profiles = SignupRole
  /\ subjects = <<>>
  /\ modules = <<>>
  /\ sections = <<>>
  /\ user_section_progress = <<>>
  /\ user_progress = <<>>
  /\ subject_id_column \in BOOLEAN
  /\ migration \in {"proud_feather", "part_000"}
  /\ null_subject_rows = [u \in Users |-> 0]
  /\ ctx = ClosedTab
  /\ auth_users = SignupRole
  /\ questions = <<>>
  /\ tx = [t \in Sessions |-> IdleTx]
  /\ last = NoRequest

PolicyNext ==
  \E caller \in Callers :
    \/ SelectSubjects(caller)
    \/ InsertSubject(caller)
    \/ \E id \in SubjectIds : UpdateSubject(caller, id) \/ DeleteSubject(caller, id)
    \/ SelectModules(caller)
    \/ \E subj \in SubjectIds : InsertModule(caller, subj)
    \/ \E id \in ModuleIds : UpdateModule(caller, id) \/ DeleteModule(caller, id)
    \/ SelectSections(caller)
    \/ \E mod \in ModuleIds : InsertSection(caller, mod, "source", 0)
    \/ \E id \in SectionIds : UpdateSection(caller, id) \/ DeleteSection(caller, id)
    \/ SelectQuestions(caller)
    \/ \E sec \in SectionIds : InsertQuestion(caller, sec)
    \/ \E id \in QuestionIds : UpdateQuestion(caller, id) \/ DeleteQuestion(caller, id)
    \/ SelectProfiles(caller)
    \/ \E id \in Users, role \in Roles :
         InsertProfile(caller, id, role) \/ UpdateProfile(caller, id, role)
    \/ \E id \in Users : DeleteProfile(caller, id)
    \/ \E owner \in RowOwners : SelectUserProgress(caller, owner)
    \/ \E owner \in RowOwners, subj \in SubjectIds :
         \/ InsertUserProgress(caller, owner, subj)
         \/ DeleteUserProgress(caller, owner, subj)

PolicySpec == PolicyInit /\ [][PolicyNext]_vars

----------------------------------------------------------------------------
\* Live counts, read from the tables

LiveSections(subj) ==
  {s \in DOMAIN sections :
     \E m \in DOMAIN modules : sections[s].module_id = m /\ modules[m].subject_id = subj}

LiveCounts(user, subj) ==
  [total_sections |-> Cardinality(LiveSections(subj)),
   completed_sections |->
     Cardinality({k \in DOMAIN user_section_progress :
                    /\ k[1] = user
                    /\ k[2] \in LiveSections(subj)
                    /\ user_section_progress[k].is_completed})]

ProgressTables == {"user_section_progress", "user_progress"}
ContentTables == {"subjects", "modules", "sections"}

SectionProgressWritten ==
  /\ last.table = "user_section_progress"
  /\ last.op \in {"insert", "update"}
  /\ last.code = "ok"

RowChanged(before, after, k) ==
  \/ (k \in DOMAIN before) # (k \in DOMAIN after)
  \/ k \in DOMAIN before /\ k \in DOMAIN after /\ before[k] # after[k]

----------------------------------------------------------------------------
C5_NonOwnerGetsError ==
  ( /\ last.table \in ProgressTables
    /\ last.op \in {"select", "insert", "update", "delete"}
    /\ last.owner # last.caller
    /\ \/ last.op = "insert"
       \/ \E k \in DOMAIN user_section_progress :
            last.table = "user_section_progress" /\ k[1] = last.owner
       \/ \E k \in DOMAIN user_progress :
            last.table = "user_progress" /\ k[1] = last.owner )
  => last.code = "rls"

\* C6 as claimed: a progress row is inserted, updated or deleted only by a request
\* of the account in its user_id, whatever the caller's role, and rows are
\* returned only to that account or to an admin.
C6_OnlyOwnerChangesProgress ==
  [][ /\ \A k \in DOMAIN user_section_progress \cup DOMAIN user_section_progress' :
           RowChanged(user_section_progress, user_section_progress', k)
             => last'.caller = k[1]
      /\ \A k \in DOMAIN user_progress \cup DOMAIN user_progress' :
           RowChanged(user_progress, user_progress', k) => last'.caller = k[1]
      /\ (last'.op = "select" /\ last'.table \in ProgressTables /\ last'.rows # {})
           => (last'.caller = last'.owner \/ profiles[last'.caller] = "admin") ]_vars

\* C6 amended: a request on the progress tables changes only rows whose user_id is
\* the caller; the rows of another account otherwise change only by being removed
\* through ON DELETE CASCADE when an admin deletes a section, module or subject;
\* rows are returned only to their account or to an admin.
C6_OnlyOwnerOrCascade ==
  [][ /\ \A k \in DOMAIN user_section_progress \cup DOMAIN user_section_progress' :
           RowChanged(user_section_progress, user_section_progress', k)
             => \/ last'.caller = k[1]
                \/ /\ k \notin DOMAIN user_section_progress'
                   /\ last'.table \in ContentTables /\ last'.op = "delete"
                   /\ profiles[last'.caller] = "admin"
      /\ \A k \in DOMAIN user_progress \cup DOMAIN user_progress' :
           RowChanged(user_progress, user_progress', k)
             => \/ last'.caller = k[1]
                \/ /\ k \notin DOMAIN user_progress'
                   /\ last'.table = "subjects" /\ last'.op = "delete"
                   /\ profiles[last'.caller] = "admin"
      /\ (last'.op = "select" /\ last'.table \in ProgressTables /\ last'.rows # {})
           => (last'.caller = last'.owner \/ profiles[last'.caller] = "admin") ]_vars

C6_Witness ==
  /\ last.table = "user_section_progress" /\ last.op = "delete"
  /\ last.caller # last.owner /\ profiles[last.caller] = "admin"
  /\ last.code = "empty"
  /\ <<last.owner, last.target>> \in DOMAIN user_section_progress

\* C7: a listing of subjects or modules by an account whose role is not admin
\* returns only rows with is_active = true.
C7_NonAdminListsActiveOnly ==
  (last.op = "select" /\ profiles[last.caller] # "admin") =>
    /\ last.table = "subjects" => \A id \in last.rows : subjects[id].is_active
    /\ last.table = "modules" => \A id \in last.rows : modules[id].is_active

C7_Witness ==
  /\ last.op = "select" /\ last.table = "subjects"
  /\ profiles[last.caller] # "admin"
  /\ \E id \in DOMAIN subjects : ~subjects[id].is_active /\ id \notin last.rows

\* C8: a listing of subjects or modules by an admin returns every row, active or
\* not, and an admin's update of such a row is applied.
C8_AdminListsAll ==
  (last.table \in {"subjects", "modules"} /\ profiles[last.caller] = "admin") =>
    /\ (last.op = "select" /\ last.table = "subjects") => last.rows = DOMAIN subjects
    /\ (last.op = "select" /\ last.table = "modules") => last.rows = DOMAIN modules
    /\ last.op = "update" => last.code = "ok"

C8_Witness ==
  /\ last.op = "select" /\ last.table = "modules"
  /\ profiles[last.caller] = "admin"
  /\ \E id \in last.rows : ~modules[id].is_active

\* C9: an insert, update or delete on subjects or modules is applied exactly when
\* the caller's profiles row has role admin at that request.
C9_ContentWriteIffAdmin ==
  (last.table \in {"subjects", "modules"} /\ last.op \in {"insert", "update", "delete"}) =>
    (last.code = "ok" <=> profiles[last.caller] = "admin")

C9_Witness ==
  /\ last.table = "subjects" /\ last.op = "insert" /\ last.code = "ok"
  /\ SignupRole[last.caller] = "student"
  /\ \E u \in Users : SignupRole[u] = "admin" /\ profiles[u] = "student"

\* C10: the role of every profiles row is the role it was created with.
C10_RoleFixedAtCreation ==
  \A u \in Users : profiles[u] = SignupRole[u]

C12_SignupRoleAndStudentDenied ==
  /\ (last.op = "signup" /\ last.code = "ok") =>
        profiles[last.caller] =
          (IF auth_users[last.caller] = "none" THEN "student" ELSE auth_users[last.caller])
  /\ ( /\ last.table = "subjects"
       /\ last.caller \in Users
       /\ auth_users[last.caller] = "none"
       /\ profiles[last.caller] = "student" )
     => /\ last.op = "insert" => last.code = "rls"
        /\ last.op = "select" => last.rows = {id \in DOMAIN subjects : subjects[id].is_active}

C12_Witness ==
  /\ last.table = "subjects" /\ last.op = "insert" /\ last.code = "rls"
  /\ last.caller \in Users
  /\ auth_users[last.caller] = "none" /\ profiles[last.caller] = "student"
  /\ \E u \in Users : profiles[u] = "admin"

\* C13: a select on sections or questions by any authenticated caller returns every
\* row, whatever the is_active flags of the modules and subjects above them; an
\* insert, update or delete on sections or questions is applied exactly when the
\* caller's role is admin.
C13_SectionsReadAllWriteAdmin ==
  (last.table \in {"sections", "questions"} /\ last.caller \in Users) =>
    /\ (last.op = "select" /\ last.table = "sections") => last.rows = DOMAIN sections
    /\ (last.op = "select" /\ last.table = "questions") => last.rows = DOMAIN questions
    /\ last.op \in {"insert", "update", "delete"} =>
         (last.code = "ok" <=> profiles[last.caller] = "admin")

C13_Witness ==
  /\ last.table = "sections" /\ last.op = "select"
  /\ last.caller \in Users /\ profiles[last.caller] = "student"
  /\ \E id \in last.rows :
       /\ ~modules[sections[id].module_id].is_active
       /\ ~subjects[modules[sections[id].module_id].subject_id].is_active

\* C14: a request for which no policy matches has no effect and returns no row: any
\* request without a token, any delete on profiles, and any insert, update or
\* delete on subjects, modules, sections or questions by a caller whose role is not
\* admin.
C14_DefaultDeny ==
  [][ LET writes == {"insert", "update", "delete"}
          unchanged == /\ profiles' = profiles /\ subjects' = subjects
                       /\ modules' = modules /\ sections' = sections
                       /\ questions' = questions
                       /\ user_section_progress' = user_section_progress
                       /\ user_progress' = user_progress
          denied == unchanged /\ last'.rows = {} /\ (last'.op \in writes => last'.code # "ok") IN
      /\ last'.caller = Anon => denied
      /\ (last'.table = "profiles" /\ last'.op = "delete") => denied
      /\ ( /\ last'.table \in ContentTables \cup {"questions"}
           /\ last'.op \in writes
           /\ ~(last'.caller \in Users /\ profiles[last'.caller] = "admin") ) => denied ]_vars

C14_Witness ==
  /\ last.caller = Anon
  /\ last.table = "subjects" /\ last.op = "select"
  /\ \E id \in DOMAIN subjects : subjects[id].is_active

\* C15: an insert, update or delete sent on user_progress by an account, its own
\* rows included, leaves user_progress as it was.
C15_NoDirectUserProgressWrite ==
  [][ (last'.table = "user_progress" /\ last'.op \in {"insert", "update", "delete"})
        => user_progress' = user_progress ]_vars

\* C16: an insert, update or delete that no policy admits is answered with a
\* row-level-security error.
C16_DeniedWriteIsError ==
  ( /\ last.op \in {"insert", "update", "delete"}
    /\ \/ last.table \in ContentTables /\ profiles[last.caller] # "admin"
       \/ last.table \in ProgressTables /\ last.owner # last.caller
       \/ last.table = "profiles" /\ last.owner # last.caller )
  => last.code = "rls"

\* C17: when the trigger cannot complete, an insert or update of
\* user_section_progress is answered with an error and changes neither progress
\* table; whenever such a request changes user_section_progress it is answered as
\* a success and the writer's user_progress row of the subject counts the section.
C17_FailedAggregationIsReported ==
  [][ (last'.table = "user_section_progress" /\ last'.op \in {"insert", "update"}) =>
        /\ ~subject_id_column =>
             /\ last'.code # "ok"
             /\ user_section_progress' = user_section_progress
             /\ user_progress' = user_progress
        /\ user_section_progress' # user_section_progress =>
             /\ last'.code = "ok"
             /\ \E subj \in DOMAIN subjects :
                  /\ <<last'.owner, subj>> \in DOMAIN user_progress'
                  /\ last'.target \in SectionsOf(subj, modules, sections)
                  /\ user_progress'[<<last'.owner, subj>>].total_sections >= 1
                  /\ user_section_progress'[<<last'.owner, last'.target>>].is_completed =>
                       user_progress'[<<last'.owner, subj>>].completed_sections >= 1 ]_vars

C17_Witness ==
  /\ ~subject_id_column
  /\ last.table = "user_section_progress" /\ last.op = "insert"
  /\ last.caller = last.owner
  /\ last.code = "error"
  /\ <<last.owner, last.target>> \notin DOMAIN user_section_progress

C21_HierarchyIsTree ==
  /\ \A m \in DOMAIN modules : modules[m].subject_id \in DOMAIN subjects
  /\ \A s \in DOMAIN sections : sections[s].module_id \in DOMAIN modules
  /\ \A q \in DOMAIN questions : questions[q].section_id \in DOMAIN sections
  /\ \A k \in DOMAIN user_section_progress : k[2] \in DOMAIN sections
  /\ \A k \in DOMAIN user_progress : k[2] \in DOMAIN subjects

\* C22: handle_new_user fired for an identity that already has its profiles row
\* creates no row and leaves profiles (the row's role included) as it was.
C22_SecondFiringChangesNothing ==
  [][ (last'.op = "signup" /\ auth_users[last'.owner] # "-")
        => /\ profiles' = profiles
           /\ auth_users' = auth_users
           /\ last'.code # "ok" ]_vars

C22_Witness ==
  /\ last.op = "signup" /\ last.code = "unique"
  /\ profiles[last.owner] \in Roles
  /\ auth_users[last.owner] = "none"

C26_FailedTestWritesNothing ==
  [][ /\ last'.op = "submitTest" => tables' = tables
      /\ \A k \in DOMAIN user_section_progress' :
           ( /\ sections[k[2]].type = "test"
             /\ (k \notin DOMAIN user_section_progress
                   \/ user_section_progress'[k] # user_section_progress[k]) )
           => /\ user_section_progress'[k].is_completed
              /\ last'.op = "insert" /\ last'.code = "ok"
              /\ last'.caller = k[1] /\ last'.target = k[2]
    ]_vars

C26_Witness ==
  /\ last.op = "submitTest"
  /\ <<last.caller, last.target>> \notin DOMAIN user_section_progress
  /\ QuestionsOf(last.target) # {}

C30_EverySectionCompletable ==
  subject_id_column =>
    \A sec \in DOMAIN sections, u \in Users :
      (profiles[u] = "student" /\ <<u, sec>> \notin DOMAIN user_section_progress) =>
        ENABLED ( /\ \/ markAsCompleted(u, sec)
                     \/ \E correctAnswers \in 0..MaxQuestions : submitTest(u, sec, correctAnswers)
                  /\ <<u, sec>> \in DOMAIN user_section_progress' )

\* C24: session bootstrap terminates. A failing session load is retried at most
\* maxRetries times, the wait before a retry is 1000 ms times the number of the
\* retry, and a mounted provider that is not initialized becomes initialized with
\* loading false (or is unmounted), whatever the session load and the profile
\* fetch answer.
C24_BootstrapTerminates ==
  /\ [](/\ ctx.retryCount <= maxRetries
        /\ ctx.pc = "retryWait" =>
             ctx.retryCount >= 1 /\ ctx.delay = 1000 * ctx.retryCount)
  /\ ((ctx.mounted /\ ~ctx.initialized)
        ~> (~ctx.mounted \/ (ctx.initialized /\ ~ctx.loading)))

\* all retries were used, the session was loaded at last and its profile was not:
\* the user is authenticated without a profile
C24_Witness ==
  /\ ctx.mounted /\ ctx.initialized /\ ~ctx.loading
  /\ ctx.retryCount = maxRetries
  /\ ctx.user # "-" /\ ctx.initUser = ctx.user /\ ctx.fetching = {}
  /\ ctx.profile = NoProfile

\* C25: what ProtectedRoute renders. Children only with loading false, a user, a
\* profile and a role the route accepts; with loading false, no user gives /login,
\* a profile that is not an admin's on a requireAdmin route gives /dashboard, one
\* that is not a student's on a requireStudent route gives /admin. No admin route
\* renders its component for a student profile, no student route for an admin's.
C25_GuardedRendering ==
  last.op = "render" =>
    LET route == CHOOSE r \in Routes : r.path = last.table
        hasProfile == ctx.user # "-" /\ ctx.profile # NoProfile
    IN /\ last.code = "children" =>
            /\ ~ctx.loading /\ hasProfile
            /\ route.requireAdmin => ctx.profile.role = "admin"
            /\ route.requireStudent => ctx.profile.role = "student"
       /\ (~ctx.loading /\ ctx.user = "-") => last.code = "/login"
       /\ (~ctx.loading /\ hasProfile /\ route.requireAdmin /\ ctx.profile.role # "admin")
            => last.code = "/dashboard"
       /\ (~ctx.loading /\ hasProfile /\ route.requireStudent /\ ctx.profile.role # "student")
            => last.code = "/admin"

\* a student profile on an admin route, turned away to /dashboard
C25_Witness ==
  /\ last.op = "render" /\ last.table = "/admin" /\ last.code = "/dashboard"
  /\ ctx.profile.role = "student"

\* C29: in a mounted provider a profile is that of the context's user: a profile
\* fetch that settles after a sign-out or after another user's sign-in leaves no
\* stale profile.
C29_ProfileBelongsToUser ==
  (ctx.mounted /\ ctx.profile # NoProfile) => ctx.user = ctx.profile.id

====
